---- MODULE Spec2Model ----
(***************************************************************************)
(* Birdbody (src/birdbody/bbcore.py): the TwitterCorpus worker that pages  *)
(* through user timelines and exports them to CSV, and the BirdbodyGUI     *)
(* handlers that start the worker process and poll it through a pipe.      *)
(***************************************************************************)
EXTENDS Integers, Sequences, FiniteSets, TLC

VARIABLES
    sizes,         \* platform: timeline sizes the accounts of this run may have
    timeline,      \* platform: statuses the account being fetched holds (ids n..1)
    shortLeft,     \* platform: short pages it may still answer with in this run
    wpc,           \* worker process: position in get_multi_user_tweets
    conn,          \* worker: TRUE when a pipe end was passed, FALSE for conn=None
    screen_names,  \* worker: argument of get_multi_user_tweets
    idx,           \* worker: position of the for loop in screen_names
    user_tweets,   \* get_user_tweets: the accumulator
    new_tweets,    \* get_user_tweets: the page last received
    oldest,        \* get_user_tweets: the cursor (max_id of the next request)
    pipe,          \* messages sent on worker_conn and not yet received
    stdout,        \* messages printed by the worker (conn=None)
    tweets_dir,    \* whether <data_path>/tweets exists
    files,         \* account -> content of <account>_tweets.csv (<<>> = no file)
    button,        \* download_button state
    gui,           \* interface: "idle", "armed", "recv", "aborted", "hung"
    log,           \* log_text, one entry per line
    status_var,    \* status bar text
    clicked,       \* history: the last download_tweets call (blank text?, names parsed)
    handed,        \* history: screen names handed to workers so far
    batches,       \* history: worker processes started so far
    sent,          \* history: notifications of the current batch, in send order
    exports,       \* history: user_tweets_to_csv calls of the current batch
    nreq,          \* history: page requests of the current get_user_tweets call
    pages,         \* history: pages received by the current get_user_tweets call
    cursors        \* history: max_id values used by the current call

vars == <<sizes, timeline, shortLeft, wpc, conn, screen_names, idx, user_tweets,
          new_tweets, oldest, pipe, stdout, tweets_dir, files, button, gui,
          log, status_var, clicked, handed, batches, sent, exports, nreq, pages,
          cursors>>

guiVars == <<button, gui, log, status_var, clicked, handed, batches>>
fetchVars == <<user_tweets, new_tweets, oldest, nreq, pages, cursors>>

----------------------------------------------------------------------------
(* Bounds *)

MaxLines == 2      \* lines in the screen-name text widget
MaxPages == 2      \* full pages per account in the direct runs
MaxShort == 1      \* short pages the platform may return in one run
MaxHanded == 2     \* screen names handed to workers in one run

(* Program constants *)

count == 200       \* api.user_timeline(..., count=200)

----------------------------------------------------------------------------
(* Values *)

Names == {"a", "b"}

\* A line of the text widget and what str.strip() makes of it.
Lines == {"a", " b ", "", " "}

strip(l) ==
    CASE l = "a" -> "a"
      [] l = " b " -> "b"
      [] OTHER -> ""

SeqsUpTo(S, n) == UNION {[1..k -> S] : k \in 0..n}

Texts == SeqsUpTo(Lines, MaxLines)

Min(x, y) == IF x <= y THEN x ELSE y

Last(s) == s[Len(s)]

RECURSIVE ParseLines(_)
\* download_tweets: strip every line, keep the non-empty ones, in order.
ParseLines(lines) ==
    IF lines = <<>> THEN <<>>
    ELSE LET l == strip(Head(lines))
         IN  (IF l # "" THEN <<l>> ELSE <<>>) \o ParseLines(Tail(lines))

\* A tweepy Status of account sn; ids fall with recency.
Status(sn, i) ==
    [id |-> i, id_str |-> ToString(i), created_at |-> "t" \o ToString(i),
     text |-> sn \o ToString(i)]

\* Notifications.
Msg(kind, sn, n) == [kind |-> kind, sn |-> sn, n |-> n]
GettingMsg(sn) == Msg("Getting", sn, 0)
ErrorMsg(sn) == Msg("TweepError", sn, 0)
ProgressMsg(n, sn) == Msg("Progress", sn, n)
SavedMsg(sn) == Msg("Saved", sn, 0)
DoneMsg(sn) == Msg("Done", sn, 0)
AllDoneMsg == Msg("AllDone", "", 0)

\* update_status / write_to_log with ts=True: the text with a timestamp.
Stamped(msg) == [text |-> msg, ts |-> TRUE]

----------------------------------------------------------------------------
(* The platform: api.user_timeline *)

\* Statuses of sn no newer than max_id (<<>> = no max_id given).
Available(sn, max_id) ==
    IF max_id = <<>> THEN timeline ELSE Min(timeline, max_id[1])

\* The n newest statuses of sn among the hi newest-first available ones.
PageOf(sn, hi, n) == [k \in 1..n |-> Status(sn, hi - k + 1)]

ShortLens == {0, 1}

\* Page lengths the platform may answer with: the full page, or a short one.
PageLens(sn, max_id) ==
    LET full == Min(count, Available(sn, max_id))
    IN  {full} \cup (IF shortLeft > 0 THEN {n \in ShortLens : n < full} ELSE {})

----------------------------------------------------------------------------
(* TwitterCorpus, run by the worker *)

\* conn.send(msg) if conn else print(msg)
Send(m) ==
    /\ sent' = Append(sent, m)
    /\ IF conn
       THEN pipe' = Append(pipe, m) /\ UNCHANGED stdout
       ELSE stdout' = Append(stdout, m) /\ UNCHANGED pipe

\* Variant: the cursor is the oldest id itself.
NextCursorSameId(tweets) == Last(tweets).id

\* oldest = user_tweets[-1].id - 1
NextCursor(tweets) == Last(tweets).id - 1

\* Variant: the page replaces the accumulator.
ExtendReplaces(tweets, page) == page

\* user_tweets.extend(new_tweets)
Extend(tweets, page) == tweets \o page

\* Variant: the loop stops at the first page that is not full.
LoopContinuesWhileFull(page) == Len(page) = count

\* while len(new_tweets) > 0
LoopContinues(page) == Len(page) > 0

CsvHeader == <<"TWEET_ID", "CREATED_AT", "TEXT">>

\* outtweets row of one status
OutRow(tweet) == <<tweet.id_str, tweet.created_at, tweet.text>>

\* Variant: the file is opened for appending.
CsvFileAppended(old, tweets) ==
    old \o <<CsvHeader>> \o [k \in 1..Len(tweets) |-> OutRow(tweets[k])]

\* what open(fp, 'w') + writerow + writerows leave in the file
CsvFile(old, tweets) ==
    <<CsvHeader>> \o [k \in 1..Len(tweets) |-> OutRow(tweets[k])]

\* Variant: the poll takes an empty pipe for a finished worker.
IsAliveWhilePiped == pipe # <<>>

\* download_worker_proc.is_alive()
IsAlive == wpc \notin {"none", "exited", "crashed"}

\* for sn in screen_names: send "Getting tweets for sn ..."
StartAccount ==
    /\ wpc = "loop_head"
    /\ idx <= Len(screen_names)
    /\ Send(GettingMsg(screen_names[idx]))
    /\ wpc' = "first_request"
    /\ user_tweets' = <<>>
    /\ new_tweets' = <<>>
    /\ oldest' = 0
    /\ nreq' = 0
    /\ pages' = <<>>
    /\ cursors' = <<>>
    /\ timeline' \in sizes
    /\ UNCHANGED <<sizes, shortLeft, conn, screen_names, idx, tweets_dir,
                   files, exports>>
    /\ UNCHANGED guiVars

\* the for loop is exhausted: the target returns and the process exits
WorkerExit ==
    /\ wpc = "loop_head"
    /\ idx > Len(screen_names)
    /\ wpc' = "exited"
    /\ UNCHANGED <<sizes, timeline, shortLeft, conn, screen_names, idx, pipe, stdout,
                   tweets_dir, files, sent, exports>>
    /\ UNCHANGED fetchVars
    /\ UNCHANGED guiVars

\* get_user_tweets: the initial request raises TweepError
FirstRequestFails ==
    /\ wpc = "first_request"
    /\ nreq' = nreq + 1
    /\ Send(ErrorMsg(screen_names[idx]))
    /\ wpc' = "export"
    /\ UNCHANGED <<sizes, timeline, shortLeft, conn, screen_names, idx, tweets_dir,
                   files, exports, user_tweets, new_tweets, oldest, pages,
                   cursors>>
    /\ UNCHANGED guiVars

\* get_user_tweets: the initial request answers with a page
FirstRequest ==
    /\ wpc = "first_request"
    /\ \E n \in PageLens(screen_names[idx], <<>>) :
         LET sn == screen_names[idx]
             full == Min(count, Available(sn, <<>>))
             page == PageOf(sn, Available(sn, <<>>), n)
         IN  /\ shortLeft' = IF n < full THEN shortLeft - 1 ELSE shortLeft
             /\ nreq' = nreq + 1
             /\ pages' = Append(pages, page)
             /\ new_tweets' = page
             /\ user_tweets' = Extend(user_tweets, page)
             /\ IF Len(user_tweets') = 0
                THEN \* user_tweets[-1] raises IndexError: the process dies
                     /\ wpc' = "crashed"
                     /\ UNCHANGED oldest
                ELSE /\ oldest' = NextCursor(user_tweets')
                     /\ wpc' = "paginate"
    /\ UNCHANGED <<sizes, timeline, conn, screen_names, idx, pipe, stdout,
                   tweets_dir, files, sent, exports, cursors>>
    /\ UNCHANGED guiVars

\* get_user_tweets: a request of the while loop raises TweepError, uncaught
NextRequestFails ==
    /\ wpc = "paginate"
    /\ LoopContinues(new_tweets)
    /\ nreq' = nreq + 1
    /\ cursors' = Append(cursors, oldest)
    /\ wpc' = "crashed"
    /\ UNCHANGED <<sizes, timeline, shortLeft, conn, screen_names, idx, pipe, stdout,
                   tweets_dir, files, sent, exports, user_tweets, new_tweets,
                   oldest, pages>>
    /\ UNCHANGED guiVars

\* Variant: the notification reports the size of the page just received.
DownloadedInPage(tweets, page) == Len(page)

\* len(user_tweets) in the progress message
Downloaded(tweets, page) == Len(tweets)

\* get_user_tweets: one turn of the while loop
NextRequest ==
    /\ wpc = "paginate"
    /\ LoopContinues(new_tweets)
    /\ \E n \in PageLens(screen_names[idx], <<oldest>>) :
         LET sn == screen_names[idx]
             full == Min(count, Available(sn, <<oldest>>))
             page == PageOf(sn, Available(sn, <<oldest>>), n)
         IN  /\ shortLeft' = IF n < full THEN shortLeft - 1 ELSE shortLeft
             /\ nreq' = nreq + 1
             /\ cursors' = Append(cursors, oldest)
             /\ pages' = Append(pages, page)
             /\ new_tweets' = page
             /\ user_tweets' = Extend(user_tweets, page)
             /\ IF Len(user_tweets') = 0
                THEN \* user_tweets[-1] raises IndexError: the process dies
                     /\ wpc' = "crashed"
                     /\ UNCHANGED <<oldest, pipe, stdout, sent>>
                ELSE /\ oldest' = NextCursor(user_tweets')
                     /\ Send(ProgressMsg(Downloaded(user_tweets', page), sn))
                     /\ UNCHANGED wpc
    /\ UNCHANGED <<sizes, timeline, conn, screen_names, idx, tweets_dir, files,
                   exports>>
    /\ UNCHANGED guiVars

\* get_user_tweets: the while test fails, return user_tweets
FetchReturn ==
    /\ wpc = "paginate"
    /\ ~LoopContinues(new_tweets)
    /\ wpc' = "export"
    /\ UNCHANGED <<sizes, timeline, shortLeft, conn, screen_names, idx, pipe, stdout,
                   tweets_dir, files, sent, exports>>
    /\ UNCHANGED fetchVars
    /\ UNCHANGED guiVars

\* user_tweets_to_csv(user_tweets, sn, conn)
UserTweetsToCsv ==
    /\ wpc = "export"
    /\ LET sn == screen_names[idx]
       IN  /\ tweets_dir' = TRUE
           /\ files' = [files EXCEPT ![sn] = CsvFile(files[sn], user_tweets)]
           /\ exports' = Append(exports, sn)
           /\ Send(SavedMsg(sn))
    /\ wpc' = "done_msg"
    /\ UNCHANGED <<sizes, timeline, shortLeft, conn, screen_names, idx>>
    /\ UNCHANGED fetchVars
    /\ UNCHANGED guiVars

\* send "Done with sn!" and take the next screen name
DoneWithAccount ==
    /\ wpc = "done_msg"
    /\ Send(DoneMsg(screen_names[idx]))
    /\ idx' = idx + 1
    /\ wpc' = "loop_head"
    /\ UNCHANGED <<sizes, timeline, shortLeft, conn, screen_names, tweets_dir, files,
                   exports>>
    /\ UNCHANGED fetchVars
    /\ UNCHANGED guiVars

Worker ==
    \/ StartAccount
    \/ WorkerExit
    \/ FirstRequestFails
    \/ FirstRequest
    \/ NextRequestFails
    \/ NextRequest
    \/ FetchReturn
    \/ UserTweetsToCsv
    \/ DoneWithAccount

----------------------------------------------------------------------------
(* BirdbodyGUI *)

\* `if msg:` holds of every notification (non-empty text, exception object)
Truthy(msg) == msg.kind # ""

\* msg = self.main_conn.recv() has returned: status bar, log, re-arm the poll
Receive ==
    /\ pipe' = Tail(pipe)
    /\ IF Truthy(Head(pipe))
       THEN /\ status_var' = Stamped(Head(pipe))
            /\ log' = Append(log, Stamped(Head(pipe)))
       ELSE UNCHANGED <<status_var, log>>
    /\ gui' = "armed"

\* Variant: the button is left enabled while the worker runs.
StartStateNormal == "normal"

\* download_button.configure(text="Download tweets", state="disabled")
StartState == "disabled"

\* No line of the text holds anything but blanks.
NoNames(sn_text) == \A i \in 1..Len(sn_text) : strip(sn_text[i]) = ""

\* Variant: the worker is started whatever the text holds.
HasNamesAlways(names) == TRUE

\* if screen_names:
HasNames(names) == names # <<>>

\* the "Download tweets" button (a disabled button, or a main loop that waits in
\* a callback, delivers no click): read the text, start the worker, arm the poll
download_tweets ==
    /\ button = "normal"
    /\ gui \notin {"recv", "hung"}
    /\ \E sn_text \in Texts :
         LET names == ParseLines(sn_text)
         IN  /\ clicked' = [blank |-> NoNames(sn_text), names |-> names]
             /\ IF HasNames(names)
                THEN /\ handed + Len(names) <= MaxHanded
                     /\ handed' = handed + Len(names)
                     /\ batches' = batches + 1
                     /\ button' = StartState
                     /\ pipe' = <<>>
                     /\ conn' = TRUE
                     /\ screen_names' = names
                     /\ idx' = 1
                     /\ wpc' = "loop_head"
                     /\ user_tweets' = <<>>
                     /\ new_tweets' = <<>>
                     /\ oldest' = 0
                     /\ nreq' = 0
                     /\ pages' = <<>>
                     /\ cursors' = <<>>
                     /\ sent' = <<>>
                     /\ exports' = <<>>
                     /\ gui' = "armed"
                ELSE UNCHANGED <<handed, batches, button, pipe, conn, screen_names, idx,
                                wpc, user_tweets, new_tweets, oldest, nreq,
                                pages, cursors, sent, exports, gui>>
    /\ UNCHANGED <<sizes, timeline, shortLeft, stdout, tweets_dir, files, log,
                   status_var>>

\* the 250 ms poll
check_download_status ==
    /\ gui = "armed"
    /\ IF ~IsAlive
       THEN /\ status_var' = Stamped(AllDoneMsg)
            /\ log' = Append(log, Stamped(AllDoneMsg))
            /\ button' = "normal"
            /\ gui' = "idle"
            /\ UNCHANGED pipe
       ELSE IF pipe # <<>>
            THEN Receive /\ UNCHANGED button
            ELSE \* recv() on an empty pipe waits inside the callback
                 /\ gui' = "recv"
                 /\ UNCHANGED <<status_var, log, button, pipe>>
    /\ UNCHANGED <<sizes, timeline, shortLeft, wpc, conn, screen_names, idx, stdout,
                   tweets_dir, files, clicked, handed, batches, sent, exports>>
    /\ UNCHANGED fetchVars

\* the pending recv() of a poll gets its message
RecvReturn ==
    /\ gui = "recv"
    /\ pipe # <<>>
    /\ Receive
    /\ UNCHANGED <<sizes, timeline, shortLeft, wpc, conn, screen_names, idx, stdout,
                   tweets_dir, files, button, clicked, handed, batches, sent, exports>>
    /\ UNCHANGED fetchVars

\* the worker ended while a poll waits in recv(): EOFError ends the callback
\* without re-arming it, or (the parent still holds worker_conn) recv() never
\* returns
RecvEOF ==
    /\ gui = "recv"
    /\ pipe = <<>>
    /\ ~IsAlive
    /\ gui' \in {"aborted", "hung"}
    /\ UNCHANGED <<sizes, timeline, shortLeft, wpc, conn, screen_names, idx, pipe,
                   stdout, tweets_dir, files, button, log, status_var, clicked,
                   handed, batches, sent, exports>>
    /\ UNCHANGED fetchVars

----------------------------------------------------------------------------
(* Specifications *)

\* An empty and a non-empty timeline for the runs started from the interface,
\* answered with full pages; FetchSpec explores the sizes around the page
\* boundaries and the short pages.
SmallSizes == {0, 2}

NoStatus == [text |-> Msg("", "", 0), ts |-> FALSE]

\* The interface after construction; no worker yet.
Init ==
    /\ sizes = SmallSizes
    /\ timeline = 0
    /\ shortLeft = 0
    /\ wpc = "none"
    /\ conn = FALSE
    /\ screen_names = <<>>
    /\ idx = 1
    /\ user_tweets = <<>>
    /\ new_tweets = <<>>
    /\ oldest = 0
    /\ pipe = <<>>
    /\ stdout = <<>>
    /\ tweets_dir = FALSE
    /\ files = [sn \in Names |-> <<>>]
    /\ button = "normal"
    /\ gui = "idle"
    /\ log = <<>>
    /\ status_var = NoStatus
    /\ clicked = [blank |-> FALSE, names |-> <<>>]
    /\ handed = 0
    /\ batches = 0
    /\ sent = <<>>
    /\ exports = <<>>
    /\ nreq = 0
    /\ pages = <<>>
    /\ cursors = <<>>

Next ==
    \/ download_tweets
    \/ check_download_status
    \/ RecvReturn
    \/ RecvEOF
    \/ Worker

Spec == Init /\ [][Next]_vars

\* The worker is a process of its own; Tk fires a due timer; a recv() whose
\* pipe holds a message, or whose peer is gone, ends.
FairSpec ==
    /\ Init
    /\ [][Next]_vars
    /\ WF_vars(Worker)
    /\ WF_vars(check_download_status)
    /\ WF_vars(RecvReturn)
    /\ WF_vars(RecvEOF)

\* Timeline sizes around the page boundaries.
FetchTotals ==
    {n \in 0..(MaxPages * count + 1) : n % count \in {0, 1, count - 1}}

\* corpus.get_multi_user_tweets([sn]) called directly, conn=None.
FetchInit ==
    /\ sizes = FetchTotals
    /\ timeline = 0
    /\ shortLeft = MaxShort
    /\ wpc = "loop_head"
    /\ conn = FALSE
    /\ screen_names \in {<<sn>> : sn \in Names}
    /\ idx = 1
    /\ user_tweets = <<>>
    /\ new_tweets = <<>>
    /\ oldest = 0
    /\ pipe = <<>>
    /\ stdout = <<>>
    /\ tweets_dir = FALSE
    /\ files = [sn \in Names |-> <<>>]
    /\ button = "normal"
    /\ gui = "idle"
    /\ log = <<>>
    /\ status_var = NoStatus
    /\ clicked = [blank |-> FALSE, names |-> <<>>]
    /\ handed = 0
    /\ batches = 0
    /\ sent = <<>>
    /\ exports = <<>>
    /\ nreq = 0
    /\ pages = <<>>
    /\ cursors = <<>>

FetchNext == Worker

FetchSpec == FetchInit /\ [][FetchNext]_vars

\* The call keeps running and the platform answers every request.
FetchFairSpec == FetchSpec /\ WF_vars(Worker)

----------------------------------------------------------------------------
(* Properties *)

Ended == wpc \in {"exited", "crashed"}

\* The screen name of the latest get_user_tweets call.
FetchedName ==
    screen_names[IF wpc \in {"loop_head", "exited"} THEN idx - 1 ELSE idx]

\* Some request of the current get_user_tweets call raised TweepError.
RequestFailed == nreq > Len(pages)

RECURSIVE Concat(_)
Concat(ps) == IF ps = <<>> THEN <<>> ELSE Head(ps) \o Concat(Tail(ps))

Ceil(n, d) == (n + d - 1) \div d

\* Every page received is the (at most count) newest statuses no newer than
\* the max_id of its request.
ExactPages ==
    \A k \in 1..Len(pages) :
        Len(pages[k]) =
            Min(count, IF k = 1 THEN timeline ELSE Min(timeline, cursors[k - 1]))

\* C1: when the worker has terminated, user_tweets_to_csv has been called
\* exactly once per entry of screen_names, in input order, whatever the fetch
\* outcomes were.
C1_ExportOncePerEntry == Ended => exports = screen_names

\* C2: when a page request of the current account has failed (the initial one
\* or one of the loop), the failure was sent as a message, get_user_tweets
\* has returned the items accumulated so far, and the worker goes on.
C2_FailureReportedAndSurvived ==
    RequestFailed =>
        /\ wpc # "crashed"
        /\ \E i \in 1..Len(sent) : sent[i] = ErrorMsg(FetchedName)
        /\ user_tweets = Concat(pages)

\* C3: when the first page of an account is empty, get_user_tweets has made
\* one request, computes no cursor (raises nothing) and returns the empty
\* sequence.
C3_EmptyFirstPageReturnsEmpty ==
    (Len(pages) >= 1 /\ pages[1] = <<>>) =>
        /\ nreq = 1
        /\ wpc # "crashed"
        /\ user_tweets = <<>>

\* C4 as stated: on a platform that answers full pages until the last one and
\* never fails, get_user_tweets has issued ceil(total_items / page_size)
\* requests when it returns.
C4_CeilRequests ==
    (wpc = "export" /\ ~RequestFailed /\ ExactPages) =>
        nreq = Ceil(timeline, count)

\* C4 as amended: on such a platform get_user_tweets has issued
\* ceil(total_items / page_size) + 1 requests when it ends, the last one being
\* the request answered by the empty page.
C4_CeilPlusOneRequests ==
    (wpc \in {"export", "crashed"} /\ ~RequestFailed /\ ExactPages) =>
        nreq = Ceil(timeline, count) + 1

C4_Witness ==
    /\ wpc = "export"
    /\ ~RequestFailed
    /\ ExactPages
    /\ timeline = 2 * count + 1
    /\ nreq = 4

\* C5: the max_id of the request that follows page P1 is the id of the last
\* status of P1 less one, is below every id of P1, and the max_id values of one
\* call never increase.
C5_CursorMonotone ==
    \A k \in 1..Len(cursors) :
        /\ k <= Len(pages)
        /\ Len(pages[k]) > 0
        /\ cursors[k] = Last(pages[k]).id - 1
        /\ \A i \in 1..Len(pages[k]) : cursors[k] < pages[k][i].id
        /\ k > 1 => cursors[k] <= cursors[k - 1]

C5_Witness ==
    /\ Len(cursors) >= 3
    /\ cursors[3] < cursors[2]
    /\ cursors[2] < cursors[1]
    /\ Len(pages[2]) = count

\* C6 (under FairSpec): once a batch has disabled the button, the interface
\* eventually is idle again with the button enabled and the worker gone.
C6_ReturnsToIdle ==
    (button = "disabled") ~> (button = "normal" /\ gui = "idle" /\ Ended)

\* The file of one export: the header row, then one row per status, in order.
HoldsExactly(file, tweets) ==
    /\ Len(file) = Len(tweets) + 1
    /\ file[1] = <<"TWEET_ID", "CREATED_AT", "TEXT">>
    /\ \A k \in 1..Len(tweets) :
           file[k + 1] = <<tweets[k].id_str, tweets[k].created_at, tweets[k].text>>

\* C7: only user_tweets_to_csv changes a file; it leaves in the account's file
\* exactly the header and the rows of the statuses it was given, whatever the
\* file held, and leaves the other accounts' files alone.
C7_ExportOverwrites ==
    [][/\ files' # files => wpc = "export"
       /\ (wpc = "export" /\ wpc' # "export") =>
              /\ HoldsExactly(files'[screen_names[idx]], user_tweets)
              /\ \A o \in Names \ {screen_names[idx]} : files'[o] = files[o]]_vars

\* "a" was exported twice in one batch, first with two statuses, then with none.
C7_Witness ==
    /\ exports = <<"a", "a">>
    /\ \E i \in 1..Len(sent) : sent[i] = ProgressMsg(2, "a")
    /\ files["a"] = <<CsvHeader>>
    /\ files["b"] = <<>>

\* C8: against a platform that never fails and answers every request with the
\* newest statuses no newer than max_id, the accumulator is at every moment
\* the concatenation of the pages received and a run of the timeline from its
\* newest status on, without repeat or gap, and it is the whole timeline when
\* get_user_tweets returns.
C8_WholeTimelineOnce ==
    (wpc \in {"paginate", "export"} /\ ~RequestFailed /\ ExactPages) =>
        /\ user_tweets = Concat(pages)
        /\ \A k \in 1..Len(user_tweets) :
               user_tweets[k] = Status(FetchedName, timeline - k + 1)
        /\ wpc = "export" => Len(user_tweets) = timeline

C8_Witness ==
    /\ wpc = "export"
    /\ ~RequestFailed
    /\ ExactPages
    /\ timeline = 2 * count + 1
    /\ Len(pages) = 4
    /\ Len(user_tweets) = timeline

RECURSIVE Ordered(_, _, _)
\* ms continues a run of notifications that is at account i in phase ph.
Ordered(ms, i, ph) ==
    IF ms = <<>> THEN TRUE
    ELSE /\ i <= Len(screen_names)
         /\ Head(ms).sn = screen_names[i]
         /\ CASE ph = "start" ->
                   /\ Head(ms) = GettingMsg(screen_names[i])
                   /\ Ordered(Tail(ms), i, "fetch")
              [] ph = "fetch" /\ Head(ms).kind \in {"TweepError", "Progress"} ->
                   Ordered(Tail(ms), i, "fetch")
              [] ph = "fetch" /\ Head(ms).kind \notin {"TweepError", "Progress"} ->
                   /\ Head(ms) = SavedMsg(screen_names[i])
                   /\ Ordered(Tail(ms), i, "saved")
              [] OTHER ->
                   /\ Head(ms) = DoneMsg(screen_names[i])
                   /\ Ordered(Tail(ms), i + 1, "start")

AllDoneCount == Cardinality({i \in 1..Len(log) : log[i].text = AllDoneMsg})

\* C9: the notifications of a batch go out account by account in input order,
\* each account's as start, fetch messages, saved, done (all of them when the
\* worker returns); the interface logs its closing message once per batch,
\* and never before the worker has terminated.
C9_NotificationOrder ==
    /\ Ordered(sent, 1, "start")
    /\ wpc = "exited" =>
           Cardinality({i \in 1..Len(sent) : sent[i].kind = "Done"})
               = Len(screen_names)
    /\ AllDoneCount = (IF gui = "idle" THEN batches ELSE batches - 1)
    /\ (batches > 0 /\ AllDoneCount = batches) => Ended

C9_Witness ==
    /\ gui = "idle"
    /\ wpc = "exited"
    /\ screen_names = <<"a", "b">>
    /\ sent[2] = ProgressMsg(2, "a")
    /\ sent[6] = ErrorMsg("b")
    /\ Len(sent) = 8
    /\ Len(log) = 9
    /\ log[Len(log)].text = AllDoneMsg
    /\ AllDoneCount = 1

\* C10: when the interface is idle again after a batch, the pipe is empty and
\* the log ends with every notification of the batch, in send order, followed
\* by the closing message.
C10_AllNotificationsLogged ==
    (gui = "idle" /\ batches > 0) =>
        /\ pipe = <<>>
        /\ Len(log) >= Len(sent) + 1
        /\ \A i \in 1..Len(sent) :
               log[Len(log) - Len(sent) - 1 + i] = Stamped(sent[i])
        /\ log[Len(log)] = Stamped(AllDoneMsg)

\* The worker process is running.
Running ==
    wpc \in {"loop_head", "first_request", "paginate", "export", "done_msg"}

\* C11: a poll never waits inside its callback: the interface is either idle
\* or has its next poll armed, and while the worker is alive the next poll is
\* armed.
C11_PollNeverWaits ==
    /\ gui \in {"idle", "armed"}
    /\ Running => gui = "armed"

\* C12: while a worker runs the button is disabled; a worker is started only
\* when none runs; and the button goes back to normal only in a poll that
\* found the worker terminated.
C12_OneWorkerAtATime ==
    [][/\ Running' => button' = "disabled"
       /\ batches' # batches => ~Running
       /\ (button = "disabled" /\ button' = "normal") =>
              (gui = "armed" /\ Ended /\ gui' = "idle")]_vars

\* A second batch runs after the first one's button was re-enabled.
C12_Witness ==
    /\ batches = 2
    /\ Running
    /\ button = "disabled"

\* No page before the last is empty, no request follows an empty page, a call
\* that ended without a failed request ended on an empty page, and such a call
\* makes at most one request more than the timeline has statuses.
StopsAtFirstEmptyPage ==
    /\ \A k \in 1..(Len(pages) - 1) : pages[k] # <<>>
    /\ (Len(pages) >= 1 /\ pages[Len(pages)] = <<>>) => nreq = Len(pages)
    /\ (~RequestFailed /\ wpc \in {"export", "crashed"}) =>
           (Len(pages) >= 1 /\ pages[Len(pages)] = <<>>)
    /\ ~RequestFailed => nreq <= timeline + 1

\* C13 (under FetchFairSpec): against a platform that honours max_id,
\* get_user_tweets stops at the first empty page, and every call ends.
C13_StopsAndTerminates ==
    /\ []StopsAtFirstEmptyPage
    /\ (wpc = "first_request") ~> (wpc \in {"export", "crashed"})

\* The call returned on an empty page that the platform sent while statuses
\* were left.
C13_Witness ==
    /\ wpc = "export"
    /\ ~RequestFailed
    /\ Len(pages) = 2
    /\ pages[2] = <<>>
    /\ Len(user_tweets) = count
    /\ timeline = 2 * count + 1

\* C14 (under Spec): a click on a text with no name on any line changes nothing:
\* no worker, no pipe, no poll, and the button, the log and the status bar stay
\* as they were.
C14_BlankInputIsNoOp ==
    [][(clicked' # clicked /\ clicked'.blank) =>
           UNCHANGED <<sizes, timeline, shortLeft, wpc, conn, screen_names, idx,
                       user_tweets, new_tweets, oldest, pipe, stdout, tweets_dir,
                       files, button, gui, log, status_var, handed, batches,
                       sent, exports, nreq, pages, cursors>>]_vars

\* A blank text was clicked after a batch had run to its end.
C14_Witness ==
    /\ clicked.blank
    /\ batches = 1
    /\ button = "normal"
    /\ gui = "idle"
    /\ log # <<>>

\* The totals of the progress notifications sent so far, in order.
ProgressTotals ==
    LET pr == SelectSeq(sent, LAMBDA m : m.kind = "Progress")
    IN  [j \in 1..Len(pr) |-> pr[j].n]

\* Each total is the number of statuses accumulated when it was sent, the totals
\* never fall, and a call that returns after a notification returns as many
\* statuses as the last total says.
TotalsAreRunningTotals ==
    /\ \A j \in 1..Len(ProgressTotals) :
           /\ j + 1 <= Len(pages)
           /\ ProgressTotals[j] = Len(Concat(SubSeq(pages, 1, j + 1)))
    /\ \A j \in 1..(Len(ProgressTotals) - 1) :
           ProgressTotals[j] <= ProgressTotals[j + 1]
    /\ (wpc = "export" /\ ProgressTotals # <<>>) =>
           ProgressTotals[Len(ProgressTotals)] = Len(user_tweets)
    /\ (wpc = "export" /\ ~RequestFailed) => ProgressTotals # <<>>

====
